---------------------------- MODULE Spec2Model ----------------------------
(***************************************************************************)
(* RemindAR frontend: face tracking (matchFaces, updateFaces), the         *)
(* recognition scheduler of App, the result cache and the WebSocket        *)
(* session.                                                                *)
(*                                                                         *)
(* Units.  Bounding-box coordinates are normalized floats in the source;   *)
(* here they are integers in thousandths (0.15 is 150).  Times are         *)
(* milliseconds.  A JavaScript Map is an OrderedMap: a sequence of         *)
(* [key, val] entries in insertion order.                                  *)
(***************************************************************************)
EXTENDS Integers, Sequences, FiniteSets, TLC

(***************************************************************************)
(* Program constants                                                       *)
(***************************************************************************)
\* matchFaces' default maxDistance = 0.15, in thousandths
maxDistance == 150
\* useFaceDetection.ts: FACE_TIMEOUT = 500 ms
FACE_TIMEOUT == 500
\* useFaceDetection.ts: DETECTION_INTERVAL = 150 ms
DETECTION_INTERVAL == 150
\* a factor above 1, which steps past the target
LERP_FACTOR_OVERSHOOT == [num |-> 23, den |-> 10]
\* useFaceDetection.ts: LERP_FACTOR = 0.3, as the fraction num / den
LERP_FACTOR == [num |-> 3, den |-> 10]
\* App: RECOGNITION_INTERVAL = 200 ms, BURST_DELAY = 50 ms
RECOGNITION_INTERVAL == 200
BURST_DELAY == 50

(***************************************************************************)
(* Bounds of the model                                                     *)
(***************************************************************************)
\* Math.random() in generateTrackId draws one of NumRand values
NumRand == 2
\* tracks in the table handed to matchFaces in SpecMatch
MaxTracks == 2
\* detections of one cycle
MaxDet == 2

\* clock steps of BURST_DELAY ms in Spec
MaxTicks == 12
\* resume signals, identity signals and registrations in Spec
MaxResumes == 2
MaxSignals == 1
MaxModals == 1
\* clock steps a detection may take before its results arrive in Spec
MaxLatency == 1
\* reconnect timers set, and superseded sockets alive at once, in SpecSocket
MaxTimers == 3
MaxOlds == 2
\* sockets created by new WebSocket in SpecSocket
MaxSockets == 4

RandPool == 1..NumRand

(***************************************************************************)
(* JavaScript Map, in insertion order                                      *)
(***************************************************************************)
EmptyMap == << >>

MapKeys(m) == {m[i].key : i \in 1..Len(m)}

MapHas(m, k) == \E i \in 1..Len(m) : m[i].key = k

MapIndex(m, k) == CHOOSE i \in 1..Len(m) : m[i].key = k

\* Map.get: the value, or Undefined
Undefined == [undefined |-> TRUE]

MapGet(m, k) == IF MapHas(m, k) THEN m[MapIndex(m, k)].val ELSE Undefined

\* Map.set: an existing key keeps its place, a new key goes last
MapSet(m, k, v) ==
    IF MapHas(m, k)
    THEN [m EXCEPT ![MapIndex(m, k)] = [key |-> k, val |-> v]]
    ELSE Append(m, [key |-> k, val |-> v])

\* Map.delete
MapDelete(m, k) == SelectSeq(m, LAMBDA e : e.key # k)

(***************************************************************************)
(* faceUtils: bboxDistance, generateTrackId, matchFaces                    *)
(***************************************************************************)
Box(x, y, w, h) == [x |-> x, y |-> y, width |-> w, height |-> h]

\* bboxDistance: the distance between the two centers.  A center is
\* x + width / 2; the model keeps (2 * distance)^2, an integer, which orders
\* distances exactly as the square root does.
bboxDistance(a, b) ==
    LET dx == (2 * a.x + a.width) - (2 * b.x + b.width)
        dy == (2 * a.y + a.height) - (2 * b.y + b.height)
    IN  dx * dx + dy * dy

\* distance < limit, on the (2 * distance)^2 scale of bboxDistance
DistBelow(d, limit) == d < 4 * limit * limit

\* generateTrackId: `face_${Date.now()}_${Math.random()...}`
generateTrackId(clock, rnd) == <<clock, rnd>>

\* a matcher that takes the first unused detection in range, not the nearest
RECURSIVE BestMatchFirstFit(_, _, _, _, _)
BestMatchFirstFit(face, newDetections, usedDetections, i, best) ==
    IF i > Len(newDetections) THEN best
    ELSE IF i \in usedDetections
    THEN BestMatchFirstFit(face, newDetections, usedDetections, i + 1, best)
    ELSE IF DistBelow(bboxDistance(face.bbox, newDetections[i]), maxDistance) /\ best = 0
         THEN BestMatchFirstFit(face, newDetections, usedDetections, i + 1, i)
         ELSE BestMatchFirstFit(face, newDetections, usedDetections, i + 1, best)

\* matchFaces, inner loop: the best unused detection for one face, 0 for null
RECURSIVE BestMatch(_, _, _, _, _)
BestMatch(face, newDetections, usedDetections, i, best) ==
    IF i > Len(newDetections) THEN best
    ELSE IF i \in usedDetections
    THEN BestMatch(face, newDetections, usedDetections, i + 1, best)
    ELSE LET distance == bboxDistance(face.bbox, newDetections[i])
         IN  IF /\ DistBelow(distance, maxDistance)
                /\ (best = 0 \/ distance < bboxDistance(face.bbox, newDetections[best]))
             THEN BestMatch(face, newDetections, usedDetections, i + 1, i)
             ELSE BestMatch(face, newDetections, usedDetections, i + 1, best)

\* a matcher that passes over the faces that are not visible
RECURSIVE MatchExistingVisibleOnly(_, _, _, _)
MatchExistingVisibleOnly(existingFaces, newDetections, k, acc) ==
    IF k > Len(existingFaces) THEN acc
    ELSE LET id == existingFaces[k].key
             face == existingFaces[k].val
             bestMatch == BestMatch(face, newDetections, acc.used, 1, 0)
         IN  IF bestMatch # 0 /\ face.isVisible
             THEN MatchExistingVisibleOnly(existingFaces, newDetections, k + 1,
                      [matches |-> MapSet(acc.matches, id, newDetections[bestMatch]),
                       used |-> acc.used \cup {bestMatch},
                       by |-> acc.by @@ (id :> bestMatch)])
             ELSE MatchExistingVisibleOnly(existingFaces, newDetections, k + 1, acc)

\* a matcher that visits the existing faces last-inserted first
RECURSIVE MatchExistingLastFirst(_, _, _, _)
MatchExistingLastFirst(existingFaces, newDetections, k, acc) ==
    IF k > Len(existingFaces) THEN acc
    ELSE LET e == existingFaces[Len(existingFaces) + 1 - k]
             bestMatch == BestMatch(e.val, newDetections, acc.used, 1, 0)
         IN  IF bestMatch # 0
             THEN MatchExistingLastFirst(existingFaces, newDetections, k + 1,
                      [matches |-> MapSet(acc.matches, e.key, newDetections[bestMatch]),
                       used |-> acc.used \cup {bestMatch},
                       by |-> acc.by @@ (e.key :> bestMatch)])
             ELSE MatchExistingLastFirst(existingFaces, newDetections, k + 1, acc)

\* matchFaces, first loop: existing faces in Map order; acc = [matches, used, by]
\* (by: the detection index each matched track took, kept for the claims)
RECURSIVE MatchExisting(_, _, _, _)
MatchExisting(existingFaces, newDetections, k, acc) ==
    IF k > Len(existingFaces) THEN acc
    ELSE LET id == existingFaces[k].key
             face == existingFaces[k].val
             bestMatch == BestMatch(face, newDetections, acc.used, 1, 0)
         IN  IF bestMatch # 0
             THEN MatchExisting(existingFaces, newDetections, k + 1,
                      [matches |-> MapSet(acc.matches, id, newDetections[bestMatch]),
                       used |-> acc.used \cup {bestMatch},
                       by |-> acc.by @@ (id :> bestMatch)])
             ELSE MatchExisting(existingFaces, newDetections, k + 1, acc)

\* matchFaces, second loop: a generated id for every unused detection
RECURSIVE MatchNew(_, _, _, _, _, _)
MatchNew(newDetections, used, clock, rnd, i, matches) ==
    IF i > Len(newDetections) THEN matches
    ELSE IF i \in used
    THEN MatchNew(newDetections, used, clock, rnd, i + 1, matches)
    ELSE MatchNew(newDetections, used, clock, rnd, i + 1,
                  MapSet(matches, generateTrackId(clock, rnd[i]), newDetections[i]))

EmptyAcc == [matches |-> EmptyMap, used |-> {}, by |-> << >>]

\* a matcher that gives every detection a new id and reuses no track
matchFacesAllNew(newDetections, existingFaces, clock, rnd) ==
    MatchNew(newDetections, {}, clock, rnd, 1, EmptyMap)

\* matchFaces(newDetections, existingFaces): clock is Date.now() and rnd[i] the
\* Math.random() draw when detection i gets its id
matchFaces(newDetections, existingFaces, clock, rnd) ==
    LET acc == MatchExisting(existingFaces, newDetections, 1, EmptyAcc)
    IN  MatchNew(newDetections, acc.used, clock, rnd, 1, acc.matches)

\* who took which detection in the first loop
matchBy(newDetections, existingFaces) ==
    MatchExisting(existingFaces, newDetections, 1, EmptyAcc).by

(***************************************************************************)
(* faceUtils: lerp, lerpBoundingBox; useFaceDetection: updateFaces         *)
(***************************************************************************)
\* an interpolation that jumps to the target
lerpSnap(start, end, factor) == end

\* lerp: start + (end - start) * factor, rounded to the nearest thousandth
\* (\div rounds down, so adding den before halving rounds to nearest)
lerp(start, end, factor) ==
    start + (2 * (end - start) * factor.num + factor.den) \div (2 * factor.den)

lerpBoundingBox(current, target, factor) ==
    [x |-> lerp(current.x, target.x, factor),
     y |-> lerp(current.y, target.y, factor),
     width |-> lerp(current.width, target.width, factor),
     height |-> lerp(current.height, target.height, factor)]

\* updateFaces, first loop (lines 58-80): one entry of updatedFaces per match
RECURSIVE ApplyMatches(_, _, _, _, _)
ApplyMatches(matches, current, now, k, updatedFaces) ==
    IF k > Len(matches) THEN updatedFaces
    ELSE LET id == matches[k].key
             newBbox == matches[k].val
             existingFace == MapGet(current, id)
         IN  ApplyMatches(matches, current, now, k + 1,
                 IF existingFace # Undefined
                 THEN MapSet(updatedFaces, id,
                          [existingFace EXCEPT
                              !.bbox = lerpBoundingBox(existingFace.bbox, newBbox, LERP_FACTOR),
                              !.rawBbox = newBbox,
                              !.lastSeen = now,
                              !.isVisible = TRUE])
                 ELSE MapSet(updatedFaces, id,
                          [id |-> id, bbox |-> newBbox, rawBbox |-> newBbox,
                           confidence |-> 1, lastSeen |-> now, isVisible |-> TRUE]))

\* a timeout test that still keeps the face at exactly FACE_TIMEOUT
NotTimedOutInclusive(face, now) == now - face.lastSeen <= FACE_TIMEOUT

\* the test of line 85: an unmatched face is kept while this holds
NotTimedOut(face, now) == now - face.lastSeen < FACE_TIMEOUT

\* a second loop that keeps every unmatched face, whatever its age
RECURSIVE KeepUnmatchedAll(_, _, _, _)
KeepUnmatchedAll(current, now, k, updatedFaces) ==
    IF k > Len(current) THEN updatedFaces
    ELSE LET id == current[k].key
             face == current[k].val
         IN  KeepUnmatchedAll(current, now, k + 1,
                 IF ~MapHas(updatedFaces, id)
                 THEN MapSet(updatedFaces, id, [face EXCEPT !.isVisible = FALSE])
                 ELSE updatedFaces)

\* updateFaces, second loop (lines 82-89): unmatched faces within the timeout
\* stay, invisible; the others are dropped
RECURSIVE KeepUnmatched(_, _, _, _)
KeepUnmatched(current, now, k, updatedFaces) ==
    IF k > Len(current) THEN updatedFaces
    ELSE LET id == current[k].key
             face == current[k].val
         IN  KeepUnmatched(current, now, k + 1,
                 IF ~MapHas(updatedFaces, id) /\ NotTimedOut(face, now)
                 THEN MapSet(updatedFaces, id, [face EXCEPT !.isVisible = FALSE])
                 ELSE updatedFaces)

\* updateFaces(newDetections, now) on facesRef.current = current; the value
\* is the Map handed to setFaces.  clock and rnd: see matchFaces.
updateFaces(current, newDetections, now, clock, rnd) ==
    LET matches == matchFaces(newDetections, current, clock, rnd)
    IN  KeepUnmatched(current, now, 1,
            ApplyMatches(matches, current, now, 1, EmptyMap))

(***************************************************************************)
(* State                                                                   *)
(***************************************************************************)
VARIABLES
    \* matchFaces applied to drawn inputs (specification SpecMatch)
    mExisting,      \* existingFaces: Map<string, TrackedFace>
    mDetections,    \* newDetections: BoundingBox[]
    mMatches,       \* the Map matchFaces returned
    mBy,            \* track id -> index of the detection it was given
    mDone,          \* matchFaces has returned
    \* the clock
    now,            \* Date.now()
    \* useFaceDetection
    detectorType,   \* detectorTypeRef.current: "native" or "mediapipe"
    faces,          \* the faces state: the Map last handed to setFaces
    facesRef,       \* facesRef.current, and the faces of the last commit
    isProcessing,   \* isProcessingRef.current
    lastDetection,  \* lastDetectionRef.current
    detectNow,      \* the const now of the detect() call in flight
    \* useWebSocket
    status,         \* the status state
    socket,         \* wsRef.current.readyState
    results,        \* the results state: track id -> RecognitionResult
    \* App
    cameraReady,    \* the cameraReady state
    seen,           \* wsStatus and cameraReady as of the last commit
    dirty,          \* states set since the last commit
    lastSendTime,   \* lastSendTimeRef.current: track id -> ms
    burstMode,      \* burstModeRef.current
    intervalDue,    \* when the setInterval of the recognition loop fires next
    burstTimers,    \* pending setTimeout(sendAllFacesNow, ...): [due, faces]
    burstExits,     \* pending setTimeout(() => burstModeRef.current = false)
    modalTimers,    \* pending post-registration setTimeouts: [due, trackId, face]
    \* the recognition service
    inflight,       \* track ids of face_data messages not yet answered
    \* bookkeeping for the bounds and the claims
    resumes, signals, modals,   \* events used up
    event,          \* the last step: [type, ...]
    sent,           \* face_data transmitted by the last step: [track_id, path, since]
    lastTx,         \* track id -> time of its last transmitted face_data
    owed,           \* cached visible tracks at the last clearAll, not sent since
    owedCycle,      \* a detection cycle has completed since that clearAll
    dropped,        \* track ids the last step handed to sendFaceData in vain
    \* useWebSocket, the sockets and timers behind wsRef.current
    mounted,        \* mountedRef.current
    olds,           \* the live sockets wsRef.current no longer holds: [id, state]
    reconnectTimers,\* pending setTimeout(connect, 2000): timer ids
    reconnectRef,   \* reconnectTimeoutRef.current: a timer id, or NoTimer
    timerSeq,       \* timer ids handed out by setTimeout so far
    sockId,         \* the id of the socket in wsRef.current, 0 for null
    sockSeq,        \* sockets created by new WebSocket so far
    heartbeats,     \* running heartbeat intervals, each named by its socket's id
    heartbeatRef,   \* heartbeatRef.current: the interval of that socket, or NoTimer
    arrivals        \* SpecCache: the messages and clears of the cache, in arrival order

matchVars == <<mExisting, mDetections, mMatches, mBy, mDone>>

detectVars == <<detectorType, faces, facesRef, isProcessing, lastDetection, detectNow>>

wsVars == <<status, socket, results>>

appVars == <<cameraReady, seen, dirty, lastSendTime, burstMode, intervalDue,
             burstTimers, burstExits, modalTimers>>

envVars == <<inflight, resumes, signals, modals>>

histVars == <<event, sent, lastTx, owed, owedCycle, dropped, arrivals>>

sessionVars == <<mounted, olds, reconnectTimers, reconnectRef, timerSeq,
                 sockId, sockSeq, heartbeats, heartbeatRef>>

appSideVars == <<now, detectVars, wsVars, sessionVars, appVars, envVars, histVars>>

vars == <<matchVars, appSideVars>>

(***************************************************************************)
(* App, useFaceDetection and useWebSocket as one event loop.               *)
(*                                                                         *)
(* A state setter (setFaces, setResults, setStatus, setCameraReady) marks  *)
(* its state dirty; Commit is React's render and effect pass, which hands  *)
(* the new values to the closures and re-runs the effects whose            *)
(* dependencies changed.  Timers fire in the clock step they are due in.   *)
(***************************************************************************)
\* Date.now() at page load: later than every interval, as on a real clock,
\* so that "|| 0" and the initial 0 of lastDetectionRef read as "long ago"
Epoch == 2 * FACE_TIMEOUT

Horizon == Epoch + MaxTicks * BURST_DELAY

\* no timer pending / never transmitted: a time before every time
NoTimer == 0 - 1

NeverSent == 0 - 1

EmptyFn == << >>

FnSet(f, k, v) == [x \in DOMAIN f \cup {k} |-> IF x = k THEN v ELSE f[x]]

FnDelete(f, k) == [x \in DOMAIN f \ {k} |-> f[x]]

\* the delays of handleModalSubmit's bursts
ModalDelays == {0, 100, 200, 300, 500}

\* the two far-apart boxes the detector reports in Spec
BoxA == Box(100, 100, 200, 200)
BoxB == Box(600, 100, 200, 200)

SpecDetections == {<< >>, <<BoxA>>}

\* in Spec the Math.random() draws of one call differ from each other
DistinctDraws(n) == {rnd \in [1..n -> RandPool] : \A i \in 1..n : rnd[i] = ((i - 1) % NumRand) + 1}

VisibleIds(f) == {f[i].key : i \in {j \in 1..Len(f) : f[j].val.isVisible}}

\* a sendFaceData that writes to the socket whatever its readyState
sendFaceDataAnyState(ids) == ids

\* sendFaceData: the ids whose face_data goes out; none unless the socket is OPEN
sendFaceData(ids) == IF socket # "OPEN" THEN {} ELSE ids

\* sendAllFacesNow's loop: every visible face of the closure's faces
SendAllTargets(f) == VisibleIds(f)

\* a new-face effect that leaves every face to the recognition loop
NewFaceTargetsNone(f, res, ledger) == {}

\* the new-face effect's loop: visible, no result, no ledger entry
NewFaceTargets(f, res, ledger) ==
    {id \in VisibleIds(f) : id \notin DOMAIN res /\ id \notin DOMAIN ledger}

\* sendForRecognition's loop: visible and last sent at least the interval ago
PeriodicTargets(f, ledger, burst, t) ==
    {id \in VisibleIds(f) :
        LET lastSend == IF id \in DOMAIN ledger THEN ledger[id] ELSE 0
            interval == IF burst THEN BURST_DELAY ELSE RECOGNITION_INTERVAL
        IN  t - lastSend >= interval}

\* what a loop that calls sendFaceData for ids leaves behind; withLedger: the
\* loop also does lastSendTimeRef.current.set(id, now)
Submit(ids, path, ledger, withLedger) ==
    LET out == sendFaceData(ids)
    IN  /\ inflight' = inflight \cup out
        /\ lastSendTime' =
               IF withLedger
               THEN [id \in DOMAIN ledger \cup ids |-> IF id \in ids THEN now ELSE ledger[id]]
               ELSE ledger
        /\ sent' = {[track_id |-> id, path |-> path,
                     since |-> IF id \in DOMAIN lastTx THEN now - lastTx[id] ELSE NeverSent]
                       : id \in out}
        /\ lastTx' = [id \in DOMAIN lastTx \cup out |-> IF id \in out THEN now ELSE lastTx[id]]
        /\ owed' = IF owedCycle = "done" THEN owed ELSE owed \ out
        /\ dropped' = ids \ out

\* the hook is mounted and its first connect() has made the socket that
\* wsRef.current holds; no timer has been set
SessionInit ==
    /\ mounted = TRUE
    /\ olds = << >>
    /\ reconnectTimers = {} /\ reconnectRef = NoTimer
    /\ timerSeq = 0
    /\ sockId = 1 /\ sockSeq = 1

AppInit ==
    /\ now = Epoch
    /\ detectorType \in {"native", "mediapipe"}
    /\ faces = EmptyMap /\ facesRef = EmptyMap
    /\ isProcessing = FALSE /\ lastDetection = 0 /\ detectNow = 0
    /\ status = "connecting" /\ socket = "CONNECTING" /\ results = EmptyFn
    /\ cameraReady = FALSE
    /\ seen = [wsStatus |-> "connecting", cameraReady |-> FALSE]
    /\ dirty = {}
    /\ lastSendTime = EmptyFn /\ burstMode = FALSE /\ intervalDue = NoTimer
    /\ burstTimers = {} /\ burstExits = {} /\ modalTimers = {}
    /\ inflight = {}
    /\ resumes = 0 /\ signals = 0 /\ modals = 0
    /\ event = [type |-> "init"] /\ sent = {} /\ lastTx = EmptyFn
    /\ owed = {} /\ owedCycle = "no" /\ dropped = {}
    /\ arrivals = << >>
    /\ SessionInit
    /\ heartbeats = {} /\ heartbeatRef = NoTimer

TimerDue ==
    \/ intervalDue # NoTimer /\ intervalDue <= now
    \/ \E t \in burstTimers : t.due <= now
    \/ \E d \in burstExits : d <= now
    \/ \E t \in modalTimers : t.due <= now

\* a detect() without the re-entrancy guard
DetectDueStacking == cameraReady /\ now - lastDetection >= DETECTION_INTERVAL

\* detect() runs on every animation frame: a detection that may start, starts
DetectDue == cameraReady /\ now - lastDetection >= DETECTION_INTERVAL /\ ~isProcessing

\* the detector answers within MaxLatency clock steps
ResultsDue == isProcessing /\ now - lastDetection >= MaxLatency * BURST_DELAY

\* the clock advances
Tick ==
    /\ now < Horizon
    /\ cameraReady
    /\ ~TimerDue /\ ~DetectDue /\ ~ResultsDue
    /\ now' = now + BURST_DELAY
    /\ event' = [type |-> "tick"]
    /\ sent' = {} /\ dropped' = {}
    /\ UNCHANGED <<matchVars, arrivals, sessionVars, detectVars, wsVars, appVars, envVars,
                   lastTx, owed, owedCycle>>

\* Camera's onReady: handleCameraReady
HandleCameraReady ==
    /\ ~cameraReady
    /\ cameraReady' = TRUE
    /\ dirty' = dirty \cup {"cameraReady"}
    /\ event' = [type |-> "cameraReady"]
    /\ sent' = {} /\ dropped' = {}
    /\ UNCHANGED <<matchVars, arrivals, sessionVars, now, detectVars, wsVars, seen, lastSendTime, burstMode,
                   intervalDue, burstTimers, burstExits, modalTimers, envVars,
                   lastTx, owed, owedCycle>>

\* detect(): the throttle and the re-entrancy guard pass and a detection starts
DetectStart ==
    /\ DetectDue
    /\ isProcessing' = TRUE
    /\ lastDetection' = now
    /\ detectNow' = now
    /\ event' = [type |-> "detectStart"]
    /\ sent' = {} /\ dropped' = {}
    /\ owedCycle' = IF owedCycle = "no" /\ owed # {} THEN "started" ELSE owedCycle
    /\ UNCHANGED <<matchVars, arrivals, sessionVars, now, detectorType, faces, facesRef, wsVars, appVars,
                   envVars, lastTx, owed>>

\* the detector's results reach updateFaces: native passes detect()'s now,
\* MediaPipe's onResults passes its own Date.now()
OnDetections(newDetections, rnd) ==
    /\ isProcessing
    /\ faces' = updateFaces(facesRef, newDetections,
                            IF detectorType = "native" THEN detectNow ELSE now,
                            now, rnd)
    /\ isProcessing' = FALSE
    /\ dirty' = dirty \cup {"faces"}
    /\ event' = [type |-> "update", at |-> IF detectorType = "native" THEN detectNow ELSE now,
                 detections |-> newDetections, before |-> facesRef]
    /\ sent' = {} /\ dropped' = {}
    /\ owedCycle' = IF owedCycle = "started" THEN "delivered" ELSE owedCycle
    /\ UNCHANGED <<matchVars, arrivals, sessionVars, now, detectorType, facesRef, lastDetection, detectNow,
                   wsVars, cameraReady, seen, lastSendTime, burstMode, intervalDue,
                   burstTimers, burstExits, modalTimers, envVars, lastTx, owed>>

\* React commits: the closures get the new values, facesRef is synced, the
\* new-face effect runs if faces, results or wsStatus changed, and the
\* recognition loop's interval is re-created if cameraReady, wsStatus or
\* faces changed
Commit ==
    /\ dirty # {}
    /\ facesRef' = faces
    /\ seen' = [wsStatus |-> status, cameraReady |-> cameraReady]
    /\ dirty' = {}
    /\ Submit(IF dirty \cap {"faces", "results", "wsStatus"} # {} /\ status = "connected"
              THEN NewFaceTargets(faces, results, lastSendTime) ELSE {},
              "new", lastSendTime, TRUE)
    /\ intervalDue' =
           IF dirty \cap {"cameraReady", "wsStatus", "faces"} = {} THEN intervalDue
           ELSE IF cameraReady /\ status = "connected" THEN now + RECOGNITION_INTERVAL
           ELSE NoTimer
    /\ event' = [type |-> "commit", closes |-> owedCycle = "delivered"]
    /\ owedCycle' = IF owedCycle = "delivered" THEN "done" ELSE owedCycle
    /\ UNCHANGED <<matchVars, arrivals, sessionVars, now, detectorType, faces, isProcessing, lastDetection,
                   detectNow, wsVars, cameraReady, burstMode, burstTimers, burstExits,
                   modalTimers, resumes, signals, modals>>

\* the recognition loop's interval fires: sendForRecognition
SendForRecognition ==
    /\ intervalDue # NoTimer /\ intervalDue <= now
    /\ Submit(PeriodicTargets(facesRef, lastSendTime, burstMode, now),
              "periodic", lastSendTime, TRUE)
    /\ intervalDue' = intervalDue + RECOGNITION_INTERVAL
    /\ event' = [type |-> "periodic"]
    /\ UNCHANGED <<matchVars, arrivals, sessionVars, now, detectVars, wsVars, cameraReady, seen, dirty,
                   burstMode, burstTimers, burstExits, modalTimers,
                   resumes, signals, modals, owedCycle>>

\* visibilitychange to visible: handleVisibilityChange
HandleVisibilityChange ==
    /\ resumes < MaxResumes
    /\ seen.cameraReady /\ seen.wsStatus = "connected"
    /\ resumes' = resumes + 1
    /\ burstMode' = TRUE
    /\ Submit(SendAllTargets(facesRef), "burst", lastSendTime, TRUE)
    /\ burstTimers' = burstTimers \cup
           {[due |-> now + k * BURST_DELAY, faces |-> facesRef] : k \in 1..3}
    /\ burstExits' = burstExits \cup {now + 4 * BURST_DELAY}
    /\ event' = [type |-> "resume"]
    /\ UNCHANGED <<matchVars, arrivals, sessionVars, now, detectVars, wsVars, cameraReady, seen, dirty,
                   intervalDue, modalTimers, signals, modals, owedCycle>>

\* a setTimeout(sendAllFacesNow, ...) of handleVisibilityChange fires; the
\* closure's wsStatus is 'connected', its faces those of the resume
BurstRound ==
    \E t \in burstTimers :
        /\ t.due <= now
        /\ burstTimers' = burstTimers \ {t}
        /\ Submit(SendAllTargets(t.faces), "burst", lastSendTime, TRUE)
        /\ event' = [type |-> "burstRound", faces |-> t.faces]
        /\ UNCHANGED <<matchVars, arrivals, sessionVars, now, detectVars, wsVars, cameraReady, seen, dirty,
                       burstMode, intervalDue, burstExits, modalTimers,
                       resumes, signals, modals, owedCycle>>

\* the setTimeout that ends burst mode fires
BurstExit ==
    \E d \in burstExits :
        /\ d <= now
        /\ burstExits' = burstExits \ {d}
        /\ burstMode' = FALSE
        /\ event' = [type |-> "burstExit"]
        /\ sent' = {} /\ dropped' = {}
        /\ UNCHANGED <<matchVars, arrivals, sessionVars, now, detectVars, wsVars, cameraReady, seen, dirty,
                       lastSendTime, intervalDue, burstTimers, modalTimers,
                       envVars, lastTx, owed, owedCycle>>

\* handleModalSubmit for a new person, once its fetches have returned:
\* clearResult, the ledger delete and the five setTimeouts over the
\* callback's faces
HandleModalSubmit(trackId) ==
    /\ modals < MaxModals
    /\ MapHas(facesRef, trackId)
    /\ modals' = modals + 1
    /\ results' = FnDelete(results, trackId)
    /\ dirty' = dirty \cup {"results"}
    /\ lastSendTime' = FnDelete(lastSendTime, trackId)
    /\ modalTimers' = modalTimers \cup
           {[due |-> now + d, trackId |-> trackId, face |-> MapGet(facesRef, trackId)]
               : d \in ModalDelays}
    /\ event' = [type |-> "modalSubmit", trackId |-> trackId]
    /\ sent' = {} /\ dropped' = {}
    /\ UNCHANGED <<matchVars, arrivals, sessionVars, now, detectVars, status, socket, cameraReady, seen,
                   burstMode, intervalDue, burstTimers, burstExits,
                   inflight, resumes, signals, lastTx, owed, owedCycle>>

\* one of handleModalSubmit's setTimeouts fires
ModalResend ==
    \E t \in modalTimers :
        /\ t.due <= now
        /\ modalTimers' = modalTimers \ {t}
        /\ Submit(IF t.face # Undefined THEN {t.trackId} ELSE {}, "modal",
                  lastSendTime, FALSE)
        /\ event' = [type |-> "modalResend", trackId |-> t.trackId]
        /\ UNCHANGED <<matchVars, arrivals, sessionVars, now, detectVars, wsVars, cameraReady, seen, dirty,
                       burstMode, intervalDue, burstTimers, burstExits,
                       resumes, signals, modals, owedCycle>>

\* what the handlers and timers of useWebSocket leave alone
appQuiet == <<matchVars, arrivals, now, detectVars, results, cameraReady, seen, lastSendTime,
              burstMode, intervalDue, burstTimers, burstExits, modalTimers,
              resumes, signals, modals, lastTx, owed, owedCycle>>

timerVars == <<reconnectTimers, reconnectRef, timerSeq>>

beatVars == <<heartbeats, heartbeatRef>>

sockVars == <<olds, sockId, sockSeq>>

\* onopen of socket s: heartbeatRef.current = setInterval(...)
OnOpenBeat(s) ==
    /\ heartbeats' = heartbeats \cup {s}
    /\ heartbeatRef' = s

\* onclose of any socket, and the cleanup: clearInterval(heartbeatRef.current)
ClearBeat ==
    /\ heartbeats' = heartbeats \ {heartbeatRef}
    /\ UNCHANGED heartbeatRef

\* ws.onopen of the socket in wsRef.current
WsOnOpen ==
    /\ socket = "CONNECTING"
    /\ socket' = "OPEN"
    /\ status' = "connected"
    /\ dirty' = dirty \cup {"wsStatus"}
    /\ OnOpenBeat(sockId)
    /\ event' = [type |-> "open"]
    /\ sent' = {} /\ dropped' = {}
    /\ UNCHANGED <<appQuiet, mounted, sockVars, timerVars, inflight>>

\* the closing handshake of the socket in wsRef.current starts: readyState
\* is CLOSING until the close event is delivered
WsClosing ==
    /\ socket = "OPEN"
    /\ timerSeq < MaxTimers
    /\ socket' = "CLOSING"
    /\ event' = [type |-> "closing"]
    /\ sent' = {} /\ dropped' = {}
    /\ UNCHANGED <<appQuiet, sessionVars, status, dirty, inflight>>

\* an onclose that sets its timer without clearing the pending one
ScheduleReconnectNoClear(timers, ref, id) == timers \cup {id}

\* onclose: clearTimeout(reconnectTimeoutRef.current), then setTimeout(connect, 2000)
ScheduleReconnect(timers, ref, id) == (timers \ {ref}) \cup {id}

\* the timer part of an onclose handler, which is the same for every socket
OnCloseTimers ==
    IF mounted
    THEN /\ timerSeq < MaxTimers
         /\ timerSeq' = timerSeq + 1
         /\ reconnectTimers' = ScheduleReconnect(reconnectTimers, reconnectRef, timerSeq + 1)
         /\ reconnectRef' = timerSeq + 1
    ELSE /\ reconnectTimers' = reconnectTimers \ {reconnectRef}
         /\ UNCHANGED <<timerSeq, reconnectRef>>

\* ws.onclose of the socket in wsRef.current
WsOnClose ==
    /\ socket \in {"CONNECTING", "OPEN", "CLOSING"}
    /\ socket' = "CLOSED"
    /\ status' = "disconnected"
    /\ dirty' = dirty \cup {"wsStatus"}
    /\ ClearBeat
    /\ OnCloseTimers
    /\ inflight' = {}
    /\ event' = [type |-> "close", pending |-> reconnectTimers]
    /\ sent' = {} /\ dropped' = {}
    /\ owed' = {}
    /\ owedCycle' = "no"
    /\ UNCHANGED <<matchVars, arrivals, mounted, sockVars, now, detectVars, results, cameraReady, seen,
                   lastSendTime, burstMode, intervalDue, burstTimers, burstExits,
                   modalTimers, resumes, signals, modals, lastTx>>

\* connect(), with mountedRef.current = isMounted: nothing when unmounted or
\* when wsRef.current is OPEN; else setStatus('connecting') and a new
\* WebSocket takes the place of wsRef.current, whose handlers stay attached
\* if it is not closed yet.  When new WebSocket(...) throws, the catch block
\* does setStatus('disconnected') and wsRef.current stays as it was.
Connect(isMounted, throws) ==
    IF ~isMounted \/ socket = "OPEN"
    THEN UNCHANGED <<status, socket, dirty, sockVars>>
    ELSE IF throws
    THEN /\ status' = "disconnected"
         /\ dirty' = dirty \cup {"wsStatus"}
         /\ UNCHANGED <<socket, sockVars>>
    ELSE /\ sockSeq < MaxSockets
         /\ status' = "connecting"
         /\ dirty' = dirty \cup {"wsStatus"}
         /\ olds' = IF socket \in {"CONNECTING", "CLOSING"}
                    THEN Append(olds, [id |-> sockId, state |-> socket]) ELSE olds
         /\ socket' = "CONNECTING"
         /\ sockId' = sockSeq + 1
         /\ sockSeq' = sockSeq + 1

\* a setTimeout(connect, 2000) fires
ReconnectFire ==
    \E id \in reconnectTimers :
        /\ reconnectTimers' = reconnectTimers \ {id}
        /\ \E throws \in BOOLEAN : Connect(mounted, throws)
        /\ event' = [type |-> "reconnect", timer |-> id]
        /\ sent' = {} /\ dropped' = {}
        /\ UNCHANGED <<appQuiet, mounted, reconnectRef, timerSeq, beatVars, inflight>>

\* the cleanup of the mount effect: timers cleared, wsRef.current closed and
\* dropped (React.StrictMode runs it once right after the first mount)
Unmount ==
    /\ mounted
    /\ Len(olds) < MaxOlds
    /\ mounted' = FALSE
    /\ ClearBeat
    /\ reconnectTimers' = reconnectTimers \ {reconnectRef}
    /\ olds' = IF socket \in {"CONNECTING", "OPEN", "CLOSING"}
               THEN Append(olds, [id |-> sockId, state |-> "CLOSING"]) ELSE olds
    /\ socket' = "NONE"
    /\ sockId' = 0
    /\ inflight' = {}
    /\ event' = [type |-> "unmount"]
    /\ sent' = {} /\ dropped' = {}
    /\ UNCHANGED <<appQuiet, reconnectRef, timerSeq, sockSeq, status, dirty>>

\* the mount effect runs again: mountedRef.current = true; connect()
Mount ==
    /\ ~mounted
    /\ mounted' = TRUE
    /\ \E throws \in BOOLEAN : Connect(TRUE, throws)
    /\ event' = [type |-> "mount"]
    /\ sent' = {} /\ dropped' = {}
    /\ UNCHANGED <<appQuiet, timerVars, beatVars, inflight>>

\* a sequence without its i-th element
Without(seq, i) == [k \in 1..(Len(seq) - 1) |-> IF k < i THEN seq[k] ELSE seq[k + 1]]

\* ws.onopen of a socket that wsRef.current no longer holds
OldOnOpen ==
    \E i \in 1..Len(olds) :
        /\ olds[i].state = "CONNECTING"
        /\ olds' = [olds EXCEPT ![i].state = "OPEN"]
        /\ status' = "connected"
        /\ dirty' = dirty \cup {"wsStatus"}
        /\ OnOpenBeat(olds[i].id)
        /\ event' = [type |-> "oldOpen"]
        /\ sent' = {} /\ dropped' = {}
        /\ UNCHANGED <<appQuiet, mounted, timerVars, socket, sockId, sockSeq, inflight>>

\* ws.onclose of a socket that wsRef.current no longer holds
OldOnClose ==
    \E i \in 1..Len(olds) :
        /\ olds' = Without(olds, i)
        /\ status' = "disconnected"
        /\ dirty' = dirty \cup {"wsStatus"}
        /\ ClearBeat
        /\ OnCloseTimers
        /\ event' = [type |-> "oldClose", pending |-> reconnectTimers]
        /\ sent' = {} /\ dropped' = {}
        /\ UNCHANGED <<appQuiet, mounted, socket, sockId, sockSeq, inflight>>

\* readyState of the socket with id s
SockState(s) ==
    IF s = sockId THEN socket
    ELSE IF \E i \in 1..Len(olds) : olds[i].id = s
    THEN olds[CHOOSE i \in 1..Len(olds) : olds[i].id = s].state
    ELSE "CLOSED"

\* the heartbeat interval that the onopen of socket s started fires:
\* a ping goes out if ws.readyState === WebSocket.OPEN
Heartbeat ==
    \E s \in heartbeats :
        /\ event' = [type |-> "heartbeat", sock |-> s, ping |-> SockState(s) = "OPEN"]
        /\ sent' = {} /\ dropped' = {}
        /\ UNCHANGED <<appQuiet, sessionVars, status, socket, dirty, inflight>>

\* a verdict handler that also stamps the track it names
OnRecognitionResultTouches(trackId, isKnown) ==
    /\ socket = "OPEN"
    /\ trackId \in inflight
    /\ inflight' = inflight \ {trackId}
    /\ results' = FnSet(results, trackId, [track_id |-> trackId, is_known |-> isKnown])
    /\ faces' = [i \in DOMAIN faces |->
                    IF faces[i].key = trackId
                    THEN [faces[i] EXCEPT !.val.lastSeen = now] ELSE faces[i]]
    /\ dirty' = dirty \cup {"results"}
    /\ event' = [type |-> "recognition_result", track_id |-> trackId,
                 tracked |-> MapHas(faces, trackId)]
    /\ sent' = {} /\ dropped' = {}
    /\ UNCHANGED <<matchVars, arrivals, sessionVars, now, detectorType, facesRef, isProcessing,
                   lastDetection, detectNow, status, socket, cameraReady, seen,
                   lastSendTime, burstMode, intervalDue, burstTimers, burstExits,
                   modalTimers, resumes, signals, modals, lastTx, owed, owedCycle>>

\* ws.onmessage with a recognition_result: next.set(result.track_id, result)
OnRecognitionResult(trackId, isKnown) ==
    /\ socket = "OPEN"
    /\ trackId \in inflight
    /\ inflight' = inflight \ {trackId}
    /\ results' = FnSet(results, trackId, [track_id |-> trackId, is_known |-> isKnown])
    /\ dirty' = dirty \cup {"results"}
    /\ event' = [type |-> "recognition_result", track_id |-> trackId,
                 tracked |-> MapHas(faces, trackId)]
    /\ sent' = {} /\ dropped' = {}
    /\ UNCHANGED <<matchVars, arrivals, sessionVars, now, detectVars, status, socket, cameraReady, seen,
                   lastSendTime, burstMode, intervalDue, burstTimers, burstExits,
                   modalTimers, resumes, signals, modals, lastTx, owed, owedCycle>>

\* clearAllResults, and the body of the three identity branches of
\* ws.onmessage: setResults(new Map())
clearAllResults == EmptyFn

\* ws.onmessage with person_registered, person_updated or person_deleted
OnIdentitySignal(type) ==
    /\ socket = "OPEN"
    /\ signals < MaxSignals
    /\ signals' = signals + 1
    /\ results' = clearAllResults
    /\ dirty' = dirty \cup {"results"}
    /\ event' = [type |-> type, cached |-> DOMAIN results, ledger |-> lastSendTime]
    /\ sent' = {} /\ dropped' = {}
    /\ owed' = IF status = "connected" THEN VisibleIds(faces) \cap DOMAIN results ELSE {}
    /\ owedCycle' = "no"
    /\ UNCHANGED <<matchVars, arrivals, sessionVars, now, detectVars, status, socket, cameraReady, seen,
                   lastSendTime, burstMode, intervalDue, burstTimers, burstExits,
                   modalTimers, inflight, resumes, modals, lastTx>>

IdentitySignals == {"person_registered", "person_updated", "person_deleted"}

Init ==
    /\ AppInit
    /\ mExisting = EmptyMap /\ mDetections = << >> /\ mMatches = EmptyMap
    /\ mBy = << >> /\ mDone = FALSE

\* the steps every specification of the App shares
CoreStep ==
    \/ Tick
    \/ DetectStart
    \/ \E d \in SpecDetections : \E rnd \in DistinctDraws(Len(d)) : OnDetections(d, rnd)
    \/ SendForRecognition
    \/ \E id \in inflight, k \in BOOLEAN : OnRecognitionResult(id, k)

\* Spec: from construction, with identity signals.  A commit that is due
\* comes before the next event.
Next ==
    \/ Commit
    \/ /\ dirty = {}
       /\ \/ CoreStep
          \/ HandleCameraReady
          \/ WsOnOpen
          \/ \E type \in IdentitySignals : OnIdentitySignal(type)

Spec == Init /\ [][Next]_vars

\* the state Spec reaches by HandleCameraReady, WsOnOpen and Commit at Epoch
ReadyInit ==
    /\ now = Epoch
    /\ detectorType \in {"native", "mediapipe"}
    /\ faces = EmptyMap /\ facesRef = EmptyMap
    /\ isProcessing = FALSE /\ lastDetection = 0 /\ detectNow = 0
    /\ status = "connected" /\ socket = "OPEN" /\ results = EmptyFn
    /\ cameraReady = TRUE
    /\ seen = [wsStatus |-> "connected", cameraReady |-> TRUE]
    /\ dirty = {}
    /\ lastSendTime = EmptyFn /\ burstMode = FALSE
    /\ intervalDue = Epoch + RECOGNITION_INTERVAL
    /\ burstTimers = {} /\ burstExits = {} /\ modalTimers = {}
    /\ inflight = {}
    /\ resumes = 0 /\ signals = 0 /\ modals = 0
    /\ event = [type |-> "commit", closes |-> FALSE] /\ sent = {} /\ lastTx = EmptyFn
    /\ owed = {} /\ owedCycle = "no" /\ dropped = {}
    /\ arrivals = << >>
    /\ SessionInit
    /\ heartbeats = {1} /\ heartbeatRef = 1
    /\ mExisting = EmptyMap /\ mDetections = << >> /\ mMatches = EmptyMap
    /\ mBy = << >> /\ mDone = FALSE

\* SpecModal: camera ready and connected, with a registration
ModalNext ==
    \/ Commit
    \/ /\ dirty = {}
       /\ \/ CoreStep
          \/ \E id \in MapKeys(facesRef) : HandleModalSubmit(id)
          \/ ModalResend

SpecModal == ReadyInit /\ [][ModalNext]_vars

\* SpecBurst: camera ready and connected, with a resume signal
BurstNext ==
    \/ Commit
    \/ /\ dirty = {}
       /\ \/ CoreStep
          \/ HandleVisibilityChange
          \/ BurstRound
          \/ BurstExit

SpecBurst == ReadyInit /\ [][BurstNext]_vars

\* SpecDrop: camera ready and connected, and the connection closes
DropNext ==
    \/ Commit
    \/ /\ dirty = {}
       /\ \/ CoreStep
          \/ WsClosing
          \/ WsOnClose

SpecDrop == ReadyInit /\ [][DropNext]_vars

\* SpecSocket: the session of useWebSocket alone, mounted, unmounted and
\* mounted again, its sockets opening and closing; a reconnect timer fires
\* at some time after it was set
SocketNext ==
    \/ Commit
    \/ /\ dirty = {}
       /\ \/ WsOnOpen
          \/ WsClosing
          \/ WsOnClose
          \/ ReconnectFire
          \/ Unmount
          \/ Mount
          \/ OldOnOpen
          \/ OldOnClose
          \/ Heartbeat

SpecSocket == Init /\ [][SocketNext]_vars

\* SpecSteady: camera ready and connected, one face that stays in view
SteadyNext ==
    \/ Commit
    \/ /\ dirty = {}
       /\ \/ Tick
          \/ DetectStart
          \/ \E rnd \in DistinctDraws(1) : OnDetections(<<BoxA>>, rnd)
          \/ SendForRecognition
          \/ \E id \in inflight, k \in BOOLEAN : OnRecognitionResult(id, k)

SpecSteady == ReadyInit /\ [][SteadyNext]_vars

\* SpecTrack: the detection loop alone, the socket still connecting, over
\* boxes at, near, at exactly maxDistance from and far from BoxA
BoxNear == Box(200, 100, 200, 200)
BoxEdge == Box(250, 100, 200, 200)

TrackDetections == {<< >>, <<BoxA>>, <<BoxNear>>, <<BoxEdge>>, <<BoxA, BoxB>>}

TrackNext ==
    \/ Commit
    \/ /\ dirty = {}
       /\ \/ HandleCameraReady
          \/ Tick
          \/ DetectStart
          \/ \E d \in TrackDetections : \E rnd \in DistinctDraws(Len(d)) :
                 OnDetections(d, rnd)

SpecTrack == Init /\ [][TrackNext]_vars

(***************************************************************************)
(* SpecMatch: matchFaces on every table of at most MaxTracks tracks and    *)
(* every list of at most MaxDet detections over MatchBoxes                 *)
(***************************************************************************)
\* centers: (200,200) (280,200) (340,200) (290,320) (120,200).  From the
\* first: 80, 140, exactly 150 (not below maxDistance), 80.
MatchBoxes ==
    {Box(100, 100, 200, 200), Box(180, 100, 200, 200), Box(240, 100, 200, 200),
     Box(190, 220, 200, 200), Box(60, 100, 120, 200)}

SeqsUpTo(S, n) == UNION {[1..k -> S] : k \in 0..n}

\* the k-th track of the table: created by an earlier cycle, so its id carries
\* an earlier Date.now() than the call under test
ExistingTrack(k, bbox) ==
    LET id == generateTrackId((k - 1) * DETECTION_INTERVAL, 1)
    IN  [key |-> id,
         val |-> [id |-> id, bbox |-> bbox, rawBbox |-> bbox, confidence |-> 1,
                  lastSeen |-> (k - 1) * DETECTION_INTERVAL, isVisible |-> TRUE]]

MatchClock == MaxTracks * DETECTION_INTERVAL

MatchInit ==
    /\ \E bs \in SeqsUpTo(MatchBoxes, MaxTracks) :
           mExisting = [k \in 1..Len(bs) |-> ExistingTrack(k, bs[k])]
    /\ mDetections \in SeqsUpTo(MatchBoxes, MaxDet)
    /\ mMatches = EmptyMap
    /\ mBy = << >>
    /\ mDone = FALSE
    /\ AppInit /\ detectorType = "native"

\* one call matchFaces(newDetections, existingFaces)
MatchCall ==
    /\ ~mDone
    /\ \E rnd \in [1..Len(mDetections) -> RandPool] :
           mMatches' = matchFaces(mDetections, mExisting, MatchClock, rnd)
    /\ mBy' = matchBy(mDetections, mExisting)
    /\ mDone' = TRUE
    /\ UNCHANGED <<mExisting, mDetections, appSideVars>>

MatchNext == MatchCall

SpecMatch == MatchInit /\ [][MatchNext]_vars

(***************************************************************************)
(* Claims on matchFaces (SpecMatch)                                        *)
(***************************************************************************)
\* distance from the k-th existing track's stored box to detection i
MDist(k, i) == bboxDistance(mExisting[k].val.bbox, mDetections[i])

MInRange(k, i) == DistBelow(MDist(k, i), maxDistance)

\* the detections taken by the tracks before position k
MUsedBefore(k) ==
    {mBy[mExisting[j].key] : j \in {j \in 1..(k - 1) : mExisting[j].key \in DOMAIN mBy}}

\* C6: matchFaces is the single-pass greedy matcher.  Visiting the existing
\* tracks in insertion order, each track gets the not-yet-used detection
\* nearest to it when that distance is strictly below maxDistance, and none
\* otherwise; no detection goes to two tracks, no track gets two detections.
C6_GreedyNearest ==
    mDone =>
        /\ DOMAIN mBy \subseteq MapKeys(mExisting)
        /\ \A a, b \in DOMAIN mBy : a # b => mBy[a] # mBy[b]
        /\ \A k \in 1..Len(mExisting) :
               LET id == mExisting[k].key
                   free == (1..Len(mDetections)) \ MUsedBefore(k)
               IN  IF id \in DOMAIN mBy
                   THEN /\ mBy[id] \in free
                        /\ MInRange(k, mBy[id])
                        /\ \A j \in free : MDist(k, mBy[id]) <= MDist(k, j)
                        /\ MapGet(mMatches, id) = mDetections[mBy[id]]
                   ELSE /\ \A j \in free : ~MInRange(k, j)
                        /\ ~MapHas(mMatches, id)

\* two tracks, two detections, both detections in range of the first track,
\* which took the second (nearer) one and left the first to the second track
C6_Witness ==
    /\ mDone
    /\ Len(mExisting) = 2 /\ Len(mDetections) = 2
    /\ MInRange(1, 1) /\ MInRange(1, 2) /\ MDist(1, 2) < MDist(1, 1)
    /\ mBy = (mExisting[1].key :> 2) @@ (mExisting[2].key :> 1)

\* C7: the track considered first wins.  If track a precedes track b and b was
\* given a detection that is in range of a, then a was given a detection at
\* least as near to a.  With a single detection, the first track in range of
\* it gets it and every other track gets none.
C7_FirstConsideredWins ==
    mDone =>
        /\ \A a, b \in 1..Len(mExisting) :
               LET ida == mExisting[a].key
                   idb == mExisting[b].key
               IN  (a < b /\ idb \in DOMAIN mBy /\ MInRange(a, mBy[idb]))
                       => /\ ida \in DOMAIN mBy
                          /\ MDist(a, mBy[ida]) <= MDist(a, mBy[idb])
        /\ Len(mDetections) = 1 =>
               LET inRange == {k \in 1..Len(mExisting) : MInRange(k, 1)}
               IN  IF inRange = {} THEN mBy = << >>
                   ELSE LET first == CHOOSE k \in inRange : \A j \in inRange : k <= j
                        IN  mBy = (mExisting[first].key :> 1)

\* one detection in range of two tracks at different distances, the second
\* track being the nearer one: the first track has it
C7_Witness ==
    /\ mDone
    /\ Len(mExisting) = 2 /\ Len(mDetections) = 1
    /\ MInRange(1, 1) /\ MInRange(2, 1) /\ MDist(2, 1) < MDist(1, 1)
    /\ mBy = (mExisting[1].key :> 1)

\* C8: every detection left unused becomes a new track under a generated id
\* that differs from every existing id and from the other ids generated in
\* the call, so the result has exactly one entry per detection.
C8_OneEntryPerDetection ==
    mDone =>
        /\ Len(mMatches) = Len(mDetections)
        /\ Cardinality(MapKeys(mMatches) \ MapKeys(mExisting))
               = Len(mDetections) - Cardinality(DOMAIN mBy)

(***************************************************************************)
(* Claims on the scheduler, the cache and the ledger                       *)
(***************************************************************************)
ActiveInterval == IF burstMode THEN BURST_DELAY ELSE RECOGNITION_INTERVAL

\* C1: the scheduler never submits the same track id twice within
\* steadyInterval (200 ms) in Steady mode nor within burstInterval (50 ms) in
\* Burst mode, on any path: every face_data transmitted is either the first
\* for its track or at least the active interval after the previous one.
C1_NeverTwiceWithinInterval ==
    \A r \in sent : r.since # NeverSent => r.since >= ActiveInterval

\* C2: a verdict for a track id that has already left the Track Store is
\* discarded: once it is handled the result cache has no entry for that id.
C2_LateVerdictDiscarded ==
    (event.type = "recognition_result" /\ ~event.tracked)
        => event.track_id \notin DOMAIN results

\* the tracks the update step just removed from the Track Store
Evicted == MapKeys(event.before) \ MapKeys(faces)

\* C3: when an update step removes a track from the Track Store, the track's
\* ledger entry and its result cache entry are removed with it.
C3_EvictionCascades ==
    event.type = "update" =>
        \A id \in Evicted : id \notin DOMAIN lastSendTime /\ id \notin DOMAIN results

\* C4: whenever the result cache is cleared as a whole (clearAll, and the
\* clear on person_registered, person_updated, person_deleted), the ledger is
\* reset too: right afterwards no track that lost its cache entry still has
\* a ledger timestamp.
C4_ClearAllResetsLedger ==
    event.type \in IdentitySignals =>
        \A id \in event.cached : id \notin DOMAIN lastSendTime

\* C5: after clearAll with the transport connected, every visible track that
\* had a cache entry before the clear is submitted again within one detection
\* cycle: when the first detection cycle started after the clear has been
\* committed, no such track that is still visible is left unsubmitted.
C5_ResubmittedWithinOneCycle ==
    (event.type = "commit" /\ event.closes) => owed \cap VisibleIds(faces) = {}

(***************************************************************************)
(* Claims on updateFaces (SpecTrack)                                       *)
(***************************************************************************)
\* the update step just taken had one track and one detection in range of it
OneTrackOneDetectionInRange ==
    /\ event.type = "update"
    /\ Len(event.before) = 1 /\ Len(event.detections) = 1
    /\ DistBelow(bboxDistance(event.before[1].val.bbox, event.detections[1]), maxDistance)

\* C9: with one track T in the Track Store and one detection whose center is
\* less than maxDistance from the center of T's stored box, the Track Store
\* after the update holds exactly the id of T: T is updated and no second
\* track is created.
C9_NearDetectionUpdatesTrack ==
    OneTrackOneDetectionInRange =>
        /\ Len(faces) = 1
        /\ faces[1].key = event.before[1].key
        /\ faces[1].val.isVisible
        /\ faces[1].val.rawBbox = event.detections[1]
        /\ faces[1].val.lastSeen = event.at

\* one track, one detection off its stored box by less than maxDistance
C9_Witness ==
    /\ OneTrackOneDetectionInRange
    /\ bboxDistance(event.before[1].val.bbox, event.detections[1]) > 0
    /\ MapKeys(faces) = {event.before[1].key}

\* the positions of the tracks the update step just taken gave no detection
Unmatched ==
    {k \in 1..Len(event.before) :
        event.before[k].key \notin DOMAIN matchBy(event.detections, event.before)}

\* C10: in an update step at time now, every track that received no detection
\* is kept with visible = false and its other fields unchanged when
\* now - lastSeen < timeout (500 ms), and is absent from the new snapshot when
\* now - lastSeen >= timeout.
C10_UnmatchedKeptOrRemoved ==
    event.type = "update" =>
        \A k \in Unmatched :
            LET id == event.before[k].key
                face == event.before[k].val
            IN  IF event.at - face.lastSeen < FACE_TIMEOUT
                THEN MapGet(faces, id) = [face EXCEPT !.isVisible = FALSE]
                ELSE ~MapHas(faces, id)

\* an update that removes a track unmatched for exactly the timeout and
\* keeps, invisible, another one unmatched for less
C10_Witness ==
    /\ event.type = "update"
    /\ \E k \in Unmatched :
           /\ event.at - event.before[k].val.lastSeen = FACE_TIMEOUT
           /\ ~MapHas(faces, event.before[k].key)
    /\ \E k \in Unmatched :
           /\ event.at - event.before[k].val.lastSeen < FACE_TIMEOUT
           /\ event.before[k].val.isVisible
           /\ ~MapGet(faces, event.before[k].key).isVisible

\* the tracks the update step just taken gave a detection, with its index
Matched == matchBy(event.detections, event.before)

\* new = old + 0.3 * (raw - old) on one axis, to the nearest thousandth
Smoothed(old, raw, new) ==
    LET err == 10 * (new - old) - 3 * (raw - old)
    IN  (0 - 5) <= err /\ err <= 5

\* C11: for every matched (track, detection) pair of an update step at time
\* now, the track in the new snapshot keeps its id, has rawBbox equal to the
\* detection, lastSeen = now, visible = true, and on each axis a bbox equal
\* to old + 0.3 * (raw - old).
C11_MatchedTrackSmoothed ==
    event.type = "update" =>
        \A id \in DOMAIN Matched :
            LET old == MapGet(event.before, id)
                raw == event.detections[Matched[id]]
                new == MapGet(faces, id)
            IN  /\ new # Undefined
                /\ new.id = id
                /\ new.confidence = old.confidence
                /\ new.rawBbox = raw
                /\ new.lastSeen = event.at
                /\ new.isVisible
                /\ Smoothed(old.bbox.x, raw.x, new.bbox.x)
                /\ Smoothed(old.bbox.y, raw.y, new.bbox.y)
                /\ Smoothed(old.bbox.width, raw.width, new.bbox.width)
                /\ Smoothed(old.bbox.height, raw.height, new.bbox.height)

\* a matched track whose detection is off its stored box, seen after a gap
C11_Witness ==
    /\ event.type = "update"
    /\ \E id \in DOMAIN Matched :
           /\ event.detections[Matched[id]].x # MapGet(event.before, id).bbox.x
           /\ MapGet(faces, id).bbox.x # event.detections[Matched[id]].x
           /\ ~MapGet(event.before, id).isVisible

(***************************************************************************)
(* Claims on what the scheduler sends, and when                            *)
(***************************************************************************)
\* C12: no recognition request is ever sent for a track that is invisible in
\* the current Track Store at the moment of sending, on any path (periodic
\* loop, burst rounds, new-track path, post-registration resends).
C12_InvisibleNeverSent ==
    \A r \in sent : r.track_id \in VisibleIds(faces)

\* C13: once the Track Store has evicted a track, no recognition request
\* carrying its id is sent, also not by timers scheduled while it was live.
C13_EvictedNeverSent ==
    \A r \in sent : MapHas(faces, r.track_id)

\* the visible tracks with neither a result nor a ledger entry
Fresh == {id \in VisibleIds(faces) : id \notin DOMAIN results /\ id \notin DOMAIN lastSendTime}

\* C14: while the transport is connected, a visible track with no result
\* cache entry and no ledger entry is submitted in the cycle in which it is
\* first seen (the commit of the update that created it), without waiting
\* for steadyInterval, and its ledger entry is set to the submission time.
C14_NewTrackSentAtOnce ==
    [][(dirty # {} /\ status = "connected")
          => \A id \in Fresh :
                 /\ \E r \in sent' : r.track_id = id /\ r.path = "new"
                 /\ id \in DOMAIN lastSendTime' /\ lastSendTime'[id] = now]_vars

\* a track created by the update just committed was sent in that commit,
\* with no earlier transmission, and entered in the ledger
C14_Witness ==
    /\ event.type = "commit"
    /\ \E r \in sent :
           /\ r.path = "new" /\ r.since = NeverSent
           /\ r.track_id[1] = now
           /\ r.track_id \in inflight
           /\ lastSendTime[r.track_id] = now

\* the longest a due track waits for a loop that fires every
\* RECOGNITION_INTERVAL: the firing just before it is due, and the next one
ResendDeadline == 2 * RECOGNITION_INTERVAL

\* C15: while the transport stays connected and a track stays visible, the
\* track is submitted again once the time since its last submission reaches
\* the active interval; a continuously visible track is never left
\* unsubmitted, although detection cycles keep replacing the snapshot.  In
\* SpecSteady the face never leaves the view and the socket stays open, so
\* every submitted track is resubmitted within ResendDeadline.
C15_VisibleTrackResubmitted ==
    \A id \in VisibleIds(faces) :
        id \in DOMAIN lastTx => now - lastTx[id] <= ResendDeadline

\* C16: a resume signal with the camera ready and the transport connected
\* puts the scheduler in Burst mode and four burst rounds follow, spaced
\* burstInterval apart (the immediate one and three timers), after which the
\* mode is Steady again; Burst mode always has its exit pending, and no
\* burst round runs or is pending while the mode is Steady, also when a
\* second resume signal arrives during a burst.
C16_BurstRoundsWithinBurstMode ==
    /\ event.type = "resume" =>
           /\ burstMode
           /\ {now + k * BURST_DELAY : k \in 1..3} \subseteq {t.due : t \in burstTimers}
           /\ now + 4 * BURST_DELAY \in burstExits
    /\ burstMode => burstExits # {}
    /\ event.type = "burstRound" => burstMode
    /\ burstTimers # {} => burstMode

\* C17: each burst round submits exactly the tracks that are visible in the
\* Track Store when the round runs (not those visible when the resume signal
\* arrived), whatever their ledger timestamps.
C17_BurstRoundSendsCurrentVisible ==
    event.type \in {"resume", "burstRound"} =>
        {r.track_id : r \in sent} = VisibleIds(faces)

(***************************************************************************)
(* Claims on the transport session                                         *)
(***************************************************************************)
\* C18: a submission made while the session is not Open is dropped, not
\* queued, and the track is submitted again on the next scheduling cycle: the
\* dropped submission does not advance the track's ledger timestamp and does
\* not count as its first submission.  So a step that drops a track leaves
\* its ledger entry as it was, and every ledger timestamp is the time of a
\* transmission.
C18_DroppedLeavesLedger ==
    /\ \A id \in dropped : id \in DOMAIN lastSendTime => lastSendTime[id] # now
    /\ \A id \in DOMAIN lastSendTime :
           id \in DOMAIN lastTx /\ lastSendTime[id] <= lastTx[id]

C20_OneReconnectTimer ==
    [][/\ Cardinality(reconnectTimers' \ reconnectTimers) <= 1
       /\ Cardinality(reconnectTimers') <= 1
       /\ reconnectTimers' \subseteq {reconnectRef'}]_vars

\* a socket closed while the timer of an earlier close was still pending,
\* and one timer is pending now
C20_Witness ==
    /\ event.type \in {"close", "oldClose"}
    /\ event.pending # {}
    /\ reconnectRef \notin event.pending
    /\ reconnectTimers = {reconnectRef}
    /\ mounted
    /\ socket \in {"CONNECTING", "OPEN", "CLOSED"}

\* C21: while the owner is mounted the session heals itself: whenever it is
\* not Open (after a close, an error, or a connection attempt that fails to
\* start) a new connection attempt eventually occurs.  The session never
\* rests with no socket that can still open or close and no reconnect timer
\* pending.
C21_SelfHealing ==
    (mounted /\ socket \in {"CLOSED", "NONE"} /\ olds = << >>) => reconnectTimers # {}

\* the ids of the sockets whose readyState is OPEN
OpenSockets ==
    (IF socket = "OPEN" THEN {sockId} ELSE {})
        \cup {olds[i].id : i \in {k \in 1..Len(olds) : olds[k].state = "OPEN"}}

\* C22: every connection that is Open has its heartbeat interval running,
\* whatever happened on other sockets meanwhile, and a heartbeat that fires
\* sends a ping only on a connection that is Open.
C22_HeartbeatWhileOpen ==
    /\ OpenSockets \subseteq heartbeats
    /\ (event.type = "heartbeat" /\ event.ping) => event.sock \in OpenSockets

\* C23: once the cleanup of the hook has run, no heartbeat sends a ping and
\* no reconnect timer is pending, so that no connection attempt follows,
\* also when the close event of the socket arrives after the cleanup.
C23_NothingAfterCleanup ==
    ~mounted => /\ reconnectTimers = {}
                /\ ~(event.type = "heartbeat" /\ event.ping)

(***************************************************************************)
(* The Result Cache of useWebSocket: ws.onmessage with any message, and    *)
(* the clearResult and clearAllResults the hook hands out.                 *)
(***************************************************************************)
\* cache operations in one behaviour of SpecCache
MaxMsgs == 3

\* the track ids the messages of SpecCache name
CacheIds == {generateTrackId(Epoch, r) : r \in RandPool}

\* message.data of a recognition_result as the backend sends it
Verdicts == {[track_id |-> t, is_known |-> k] : t \in CacheIds, k \in BOOLEAN}

\* message.data of a recognition_result that lacks fields of RecognitionResult
PartialVerdicts == {[track_id |-> t] : t \in CacheIds} \cup {[is_known |-> TRUE]}

\* what the socket can deliver: text that JSON.parse rejects, and objects
\* with a type and possibly data
Messages ==
    {[json |-> FALSE, body |-> [type |-> "recognition_result"]]}
        \cup {[json |-> TRUE, body |-> [type |-> "recognition_result", data |-> d]]
                  : d \in Verdicts \cup PartialVerdicts}
        \cup {[json |-> TRUE, body |-> [type |-> t]] : t \in {"recognition_result", "pong", "person_deleted"}}
        \cup {[json |-> TRUE, body |-> [type |-> t, data |-> [name |-> "p"]]] : t \in IdentitySignals}

\* message.data is truthy
HasData(message) == "data" \in DOMAIN message

\* a handler that does not take person_deleted for an identity signal
IsIdentitySignalNoDelete(message) ==
    message.type \in {"person_registered", "person_updated"} /\ HasData(message)

\* the conditions of the three identity branches of ws.onmessage
IsIdentitySignal(message) ==
    message.type \in {"person_registered", "person_updated", "person_deleted"} /\ HasData(message)

\* an updater that keeps the entry a track already has
setResultFirstWins(prev, result) ==
    IF result.track_id \in DOMAIN prev THEN prev ELSE FnSet(prev, result.track_id, result)

\* the updater of the recognition_result branch: next.set(result.track_id, result)
setResult(prev, result) == FnSet(prev, result.track_id, result)

\* ws.onmessage as a function of the cache: JSON.parse throws on text that
\* is not JSON and result.track_id.slice throws when track_id is missing,
\* both land in the catch block before any setResults
onmessage(prev, m) ==
    IF ~m.json THEN prev
    ELSE IF m.body.type = "recognition_result" /\ HasData(m.body)
    THEN IF "track_id" \in DOMAIN m.body.data THEN setResult(prev, m.body.data) ELSE prev
    ELSE IF IsIdentitySignal(m.body) THEN clearAllResults
    ELSE prev

\* ws.onmessage reaches one of its setResults calls
CallsSetResults(m) ==
    /\ m.json
    /\ \/ /\ m.body.type = "recognition_result" /\ HasData(m.body)
          /\ "track_id" \in DOMAIN m.body.data
       \/ IsIdentitySignal(m.body)

\* a clearResult that empties the cache
clearResultAll(prev, trackId) == EmptyFn

\* clearResult: next.delete(trackId)
clearResult(prev, trackId) == FnDelete(prev, trackId)

\* ws.onmessage of the open socket
OnMessage(m) ==
    /\ socket = "OPEN"
    /\ Len(arrivals) < MaxMsgs
    /\ results' = onmessage(results, m)
    /\ dirty' = IF CallsSetResults(m) THEN dirty \cup {"results"} ELSE dirty
    /\ arrivals' = Append(arrivals, [op |-> "message", msg |-> m])
    /\ event' = [type |-> "message", msg |-> m, before |-> results]
    /\ sent' = {} /\ dropped' = {}
    /\ UNCHANGED <<matchVars, sessionVars, now, detectVars, status, socket, cameraReady, seen,
                   lastSendTime, burstMode, intervalDue, burstTimers, burstExits,
                   modalTimers, inflight, resumes, signals, modals, lastTx, owed, owedCycle>>

\* the owner calls clearResult(trackId)
ClearResult(trackId) ==
    /\ Len(arrivals) < MaxMsgs
    /\ results' = clearResult(results, trackId)
    /\ dirty' = dirty \cup {"results"}
    /\ arrivals' = Append(arrivals, [op |-> "clear", track_id |-> trackId])
    /\ event' = [type |-> "clearResult", track_id |-> trackId, before |-> results]
    /\ sent' = {} /\ dropped' = {}
    /\ UNCHANGED <<matchVars, sessionVars, now, detectVars, status, socket, cameraReady, seen,
                   lastSendTime, burstMode, intervalDue, burstTimers, burstExits,
                   modalTimers, inflight, resumes, signals, modals, lastTx, owed, owedCycle>>

\* the owner calls clearAllResults()
ClearAllResults ==
    /\ Len(arrivals) < MaxMsgs
    /\ results' = clearAllResults
    /\ dirty' = dirty \cup {"results"}
    /\ arrivals' = Append(arrivals, [op |-> "clearAll"])
    /\ event' = [type |-> "clearAllResults", before |-> results]
    /\ sent' = {} /\ dropped' = {}
    /\ UNCHANGED <<matchVars, sessionVars, now, detectVars, status, socket, cameraReady, seen,
                   lastSendTime, burstMode, intervalDue, burstTimers, burstExits,
                   modalTimers, inflight, resumes, signals, modals, lastTx, owed, owedCycle>>

\* SpecCache: connected, with messages and clears in any order
CacheNext ==
    \/ Commit
    \/ \E m \in Messages : OnMessage(m)
    \/ \E t \in CacheIds : ClearResult(t)
    \/ ClearAllResults

SpecCache == ReadyInit /\ [][CacheNext]_vars

\* the last operation on the cache
LastArrival(log) == log[Len(log)]

\* a message that is not JSON, has a type the client does not know, or is
\* a recognition_result without all the fields of RecognitionResult
Malformed(m) ==
    \/ ~m.json
    \/ m.body.type \notin {"recognition_result"} \cup IdentitySignals
    \/ /\ m.body.type = "recognition_result"
       /\ ~(HasData(m.body) /\ m.body.data \in Verdicts)

\* C24: a malformed message leaves the Result Cache and the connection
\* state as they were, and a well-formed verdict that arrives after it is
\* stored.
C24_MalformedDropped ==
    [][(arrivals' # arrivals /\ LastArrival(arrivals').op = "message") =>
          LET m == LastArrival(arrivals').msg IN
          /\ Malformed(m) => (results' = results /\ status' = status /\ socket' = socket)
          /\ (~Malformed(m) /\ m.body.type = "recognition_result" /\ arrivals # << >>
                  /\ LastArrival(arrivals).op = "message" /\ Malformed(LastArrival(arrivals).msg))
               => (m.body.data.track_id \in DOMAIN results'
                      /\ results'[m.body.data.track_id] = m.body.data)]_vars

\* C25: when the message handled last is an identity signal (a person was
\* registered, updated or deleted), the Result Cache has no entry.
C25_IdentitySignalEmptiesCache ==
    (arrivals # << >> /\ LastArrival(arrivals).op = "message"
        /\ LastArrival(arrivals).msg.json
        /\ LastArrival(arrivals).msg.body.type \in IdentitySignals
        /\ HasData(LastArrival(arrivals).msg.body))
    => results = EmptyFn

C25_Witness ==
    /\ event.type = "message"
    /\ event.msg.json /\ event.msg.body.type = "person_deleted" /\ HasData(event.msg.body)
    /\ event.before # EmptyFn
    /\ results = EmptyFn

\* the log entry is a verdict naming track t
IsVerdictFor(entry, t) ==
    /\ entry.op = "message"
    /\ entry.msg.json
    /\ entry.msg.body.type = "recognition_result"
    /\ HasData(entry.msg.body)
    /\ "track_id" \in DOMAIN entry.msg.body.data
    /\ entry.msg.body.data.track_id = t

\* the log entry clears track t: a point clear of t, a clearAll, or an
\* identity signal
ClearsTrack(entry, t) ==
    \/ entry.op = "clear" /\ entry.track_id = t
    \/ entry.op = "clearAll"
    \/ /\ entry.op = "message"
       /\ entry.msg.json
       /\ entry.msg.body.type \in IdentitySignals
       /\ HasData(entry.msg.body)

MaxOf(S) == CHOOSE x \in S : \A y \in S : y <= x

\* the arrivals of verdicts for t after the last clear of t
VerdictsSinceClear(log, t) ==
    LET cleared == MaxOf({0} \cup {i \in 1..Len(log) : ClearsTrack(log[i], t)})
    IN {i \in 1..Len(log) : i > cleared /\ IsVerdictFor(log[i], t)}

\* C26: the cached result of every track is the verdict for that track
\* that arrived last since the track was last cleared, and the track has
\* no entry when none arrived since; verdicts for other tracks play no part.
C26_LatestVerdictCached ==
    \A t \in CacheIds :
        LET since == VerdictsSinceClear(arrivals, t) IN
        IF since = {} THEN t \notin DOMAIN results
        ELSE /\ t \in DOMAIN results
             /\ results[t] = arrivals[MaxOf(since)].msg.body.data

C26_Witness ==
    \E t \in CacheIds :
        /\ Len(arrivals) >= 3
        /\ IsVerdictFor(arrivals[1], t)
        /\ \E u \in CacheIds \ {t} : IsVerdictFor(arrivals[2], u)
        /\ IsVerdictFor(arrivals[3], t)
        /\ arrivals[3].msg.body.data # arrivals[1].msg.body.data
        /\ results[t] = arrivals[3].msg.body.data

\* C27: clearResult(trackId) takes the entry of trackId out of the Result
\* Cache and leaves every other entry as it was; when trackId has no entry
\* the cache stays as it was.
C27_ClearRemovesOneEntry ==
    [][(arrivals' # arrivals /\ LastArrival(arrivals').op = "clear") =>
          LET t == LastArrival(arrivals').track_id IN
          /\ DOMAIN results' = DOMAIN results \ {t}
          /\ \A k \in DOMAIN results' : results'[k] = results[k]
          /\ t \notin DOMAIN results => results' = results]_vars

C27_Witness ==
    /\ event.type = "clearResult"
    /\ event.track_id \in DOMAIN event.before
    /\ results # EmptyFn
    /\ \A k \in DOMAIN results : results[k] = event.before[k]

(***************************************************************************)
(* The detection loop with a detector that may take longer than the        *)
(* throttle: animation frames keep calling detect() meanwhile.             *)
(***************************************************************************)
\* an animation frame calls detect() and the throttle or the re-entrancy
\* guard does not pass: only the next frame is requested
DetectSkip ==
    /\ cameraReady
    /\ ~DetectDue
    /\ event' = [type |-> "detectSkip"]
    /\ sent' = {} /\ dropped' = {}
    /\ UNCHANGED <<matchVars, arrivals, sessionVars, now, detectVars, wsVars, appVars, envVars,
                   lastTx, owed, owedCycle>>

\* a catch block that leaves isProcessingRef as it is
DetectThrowsKeepsFlag ==
    /\ isProcessing
    /\ event' = [type |-> "detectError"]
    /\ sent' = {} /\ dropped' = {}
    /\ UNCHANGED <<matchVars, arrivals, sessionVars, now, detectVars, wsVars, appVars, envVars,
                   lastTx, owed, owedCycle>>

\* the detector rejects: the catch block of detect() resets isProcessingRef
DetectThrows ==
    /\ isProcessing
    /\ isProcessing' = FALSE
    /\ event' = [type |-> "detectError"]
    /\ sent' = {} /\ dropped' = {}
    /\ UNCHANGED <<matchVars, arrivals, sessionVars, now, detectorType, faces, facesRef,
                   lastDetection, detectNow, wsVars, appVars, envVars, lastTx, owed, owedCycle>>

\* the clock advances while the detector may still be working
TickDetecting ==
    /\ now < Horizon
    /\ cameraReady
    /\ ~TimerDue /\ ~DetectDue
    /\ now' = now + BURST_DELAY
    /\ event' = [type |-> "tick"]
    /\ sent' = {} /\ dropped' = {}
    /\ UNCHANGED <<matchVars, arrivals, sessionVars, detectVars, wsVars, appVars, envVars,
                   lastTx, owed, owedCycle>>

\* SpecCycle: the detection loop from construction
CycleNext ==
    \/ Commit
    \/ /\ dirty = {}
       /\ \/ HandleCameraReady
          \/ TickDetecting
          \/ DetectStart
          \/ DetectSkip
          \/ DetectThrows
          \/ \E d \in SpecDetections : \E rnd \in DistinctDraws(Len(d)) : OnDetections(d, rnd)

SpecCycle == Init /\ [][CycleNext]_vars

\* C28: while a detection cycle is in flight no other cycle starts; a frame
\* that fires meanwhile changes nothing of the detector's state; and every
\* update of the Track Store carries a time that is not before the lastSeen
\* of any track the store holds.
C28_OneCycleInFlight ==
    [][/\ isProcessing => (lastDetection' = lastDetection /\ detectNow' = detectNow)
       /\ (event'.type = "detectSkip" /\ isProcessing) =>
              (isProcessing' /\ faces' = faces /\ lastDetection' = lastDetection)
       /\ (isProcessing /\ ~isProcessing' /\ faces' # faces) =>
              \A i \in 1..Len(facesRef) : facesRef[i].val.lastSeen <= event'.at]_vars

C28_Witness ==
    /\ event.type = "detectSkip"
    /\ isProcessing
    /\ now - lastDetection >= DETECTION_INTERVAL
    /\ faces # EmptyMap

\* the unmatched tracks of the update step just taken that are within the
\* grace period
InGrace == {k \in Unmatched : event.at - event.before[k].val.lastSeen < FACE_TIMEOUT}

\* C29: after an update step the Track Store holds at most as many tracks
\* as the cycle had detections plus the earlier tracks that got no
\* detection and were seen less than the timeout ago.
C29_TrackCountBounded ==
    event.type = "update" =>
        Len(faces) <= Len(event.detections) + Cardinality(InGrace)

\* an update with a detection, a kept unmatched track and a dropped one
C29_Witness ==
    /\ event.type = "update"
    /\ Len(event.detections) >= 1
    /\ InGrace # {}
    /\ Unmatched \ InGrace # {}
    /\ Len(faces) = Len(event.detections) + Cardinality(InGrace)

Abs(n) == IF n < 0 THEN 0 - n ELSE n

\* on one axis the smoothed value moved from old to new towards raw: the
\* error keeps its sign or becomes zero, does not grow, and shrinks while it
\* is more than one thousandth, the unit the values are rounded to
Approaches(old, raw, new) ==
    /\ (raw - old) * (raw - new) >= 0
    /\ Abs(raw - new) <= Abs(raw - old)
    /\ Abs(raw - old) > 1 => Abs(raw - new) < Abs(raw - old)

\* the tracks that the update step just taken matched with the detection
\* they were given the time before
FedAgain ==
    {id \in DOMAIN Matched :
        MapGet(event.before, id).rawBbox = event.detections[Matched[id]]}

\* C30: when a track is fed the detection it was fed before, on every axis
\* the smoothed box moves towards the raw box without passing it: raw minus
\* smoothed never changes sign, never grows, and shrinks until the two
\* agree to the rounding unit.
C30_SmoothedConverges ==
    event.type = "update" =>
        \A id \in FedAgain :
            LET old == MapGet(event.before, id).bbox
                raw == event.detections[Matched[id]]
                new == MapGet(faces, id).bbox
            IN  /\ Approaches(old.x, raw.x, new.x)
                /\ Approaches(old.y, raw.y, new.y)
                /\ Approaches(old.width, raw.width, new.width)
                /\ Approaches(old.height, raw.height, new.height)

\* a track fed the same detection again while its smoothed box is still
\* off the raw box, before and after
C30_Witness ==
    /\ event.type = "update"
    /\ \E id \in FedAgain :
           /\ Abs(event.detections[Matched[id]].x - MapGet(event.before, id).bbox.x) > 1
           /\ MapGet(faces, id).bbox.x # event.detections[Matched[id]].x
           /\ MapGet(faces, id).bbox.x # MapGet(event.before, id).bbox.x

(***************************************************************************)
(* All the events of the application next to the detection loop: verdicts, *)
(* identity signals, a resume, a registration, and the loss and return of  *)
(* the connection.                                                         *)
(***************************************************************************)
\* clock steps of SpecFrame
FrameTicks == 4

\* SpecFrame: connected, one face in front of the camera; a run has either
\* resumes and registrations or a connection that closes and comes back
FrameNext ==
    \/ Commit
    \/ /\ dirty = {}
       /\ \/ now < Epoch + FrameTicks * BURST_DELAY /\ Tick
          \/ DetectStart
          \/ \E rnd \in DistinctDraws(1) : OnDetections(<<BoxA>>, rnd)
          \/ SendForRecognition
          \/ \E id \in inflight, k \in BOOLEAN : OnRecognitionResult(id, k)
          \/ \E type \in IdentitySignals : OnIdentitySignal(type)
          \/ /\ timerSeq = 0 /\ socket = "OPEN"
             /\ \/ HandleVisibilityChange
                \/ \E id \in MapKeys(facesRef) : HandleModalSubmit(id)
          \/ BurstRound
          \/ BurstExit
          \/ ModalResend
          \/ /\ resumes = 0 /\ modals = 0
             /\ \/ WsClosing
                \/ WsOnClose
          \/ ReconnectFire
          \/ WsOnOpen

SpecFrame == ReadyInit /\ [][FrameNext]_vars

\* C31: the Track Store changes only in the update step of a detection
\* cycle: a verdict, a cache clear, an identity signal, a submission, a
\* resume signal, and the opening and closing of the connection leave it
\* as it is.
C31_OnlyUpdateChangesTracks ==
    [][faces' # faces => (isProcessing /\ ~isProcessing' /\ event'.type = "update")]_vars

\* a verdict has arrived for a track of the store, seen a while ago
C31_Witness ==
    /\ event.type = "recognition_result"
    /\ event.tracked
    /\ \E i \in 1..Len(faces) : faces[i].key = event.track_id /\ faces[i].val.lastSeen < now

\* C32: every key of the Result Cache and of the ledger is the id of a
\* track that has been visible in the Track Store; stated for the runs in
\* which no detection cycle has started yet, where no track has ever
\* existed: there the cache and the ledger have no key.
C32_KeysWereVisible ==
    (lastDetection = 0 /\ faces = EmptyMap /\ facesRef = EmptyMap)
        => (DOMAIN results = {} /\ DOMAIN lastSendTime = {})

\* in the update step just taken: track k of the old snapshot was invisible
\* and within its grace window, and detection d lay within maxDistance of it
InvisibleNear(k, d) ==
    /\ ~event.before[k].val.isVisible
    /\ event.at - event.before[k].val.lastSeen < FACE_TIMEOUT
    /\ DistBelow(bboxDistance(event.before[k].val.bbox, event.detections[d]), maxDistance)

\* the track is in the new snapshot under its id, visible, seen now
Revived(k) ==
    LET new == MapGet(faces, event.before[k].key)
    IN  /\ new # Undefined
        /\ new.id = event.before[k].val.id
        /\ new.isVisible
        /\ new.lastSeen = event.at

OnlyPair(k, d) ==
    /\ \A e \in 1..Len(event.detections) \ {d} :
           ~DistBelow(bboxDistance(event.before[k].val.bbox, event.detections[e]), maxDistance)
    /\ \A j \in 1..Len(event.before) \ {k} :
           ~DistBelow(bboxDistance(event.before[j].val.bbox, event.detections[d]), maxDistance)

LagTicks == 15

\* the clock advances, up to the horizon of SpecLag
TickLag ==
    /\ now < Epoch + LagTicks * BURST_DELAY
    /\ cameraReady
    /\ ~TimerDue /\ ~DetectDue /\ ~ResultsDue
    /\ now' = now + BURST_DELAY
    /\ event' = [type |-> "tick"]
    /\ sent' = {} /\ dropped' = {}
    /\ UNCHANGED <<matchVars, arrivals, sessionVars, detectVars, wsVars, appVars, envVars,
                   lastTx, owed, owedCycle>>

\* SpecLag: the detection loop from construction; a commit that is due may
\* come after the next events
LagNext ==
    \/ Commit
    \/ HandleCameraReady
    \/ TickLag
    \/ DetectStart
    \/ \E d \in SpecDetections : \E rnd \in DistinctDraws(Len(d)) : OnDetections(d, rnd)

SpecLag == Init /\ [][LagNext]_vars

\* C35: every update step is computed from the snapshot that the update
\* step before it produced, whether or not React has committed in between.
C35_NoLostUpdate ==
    [][(isProcessing /\ ~isProcessing' /\ event'.type = "update") => event'.before = faces]_vars

\* C34: removal is permanent.  Ids carry the clock of their creation, so an
\* id of the new snapshot that the snapshot before it did not hold must
\* have been generated in this very update; an id that an earlier snapshot
\* held and the last one had lost does not come back.
C34_RemovalPermanent ==
    [][(isProcessing /\ ~isProcessing' /\ event'.type = "update") =>
          \A i \in 1..Len(faces') :
              \/ MapHas(faces, faces'[i].key)
              \/ \E r \in RandPool : faces'[i].key = generateTrackId(now, r)]_vars

\* the registration of track id was submitted at this very clock value and
\* none of its resends has fired, and the last request for id went out at
\* an earlier clock value: every request for id still unanswered was sent
\* before the clear
OnlyOldRequests(id) ==
    /\ Cardinality({t \in modalTimers : t.trackId = id}) = Cardinality(ModalDelays)
    /\ \E t \in modalTimers : t.trackId = id /\ t.due = now
    /\ id \in DOMAIN lastTx
    /\ lastTx[id] < now

\* C36: a verdict that answers a request sent before the registration
\* cleared the track's entry does not put an entry for that track into the
\* Result Cache.
C36_NoStaleVerdictAfterClear ==
    (event.type = "recognition_result" /\ OnlyOldRequests(event.track_id))
        => event.track_id \notin DOMAIN results

\* C37: after every open or close event of a socket of the session, of the
\* current socket or of a superseded one, the status is 'connected' exactly
\* when the socket in wsRef.current is OPEN.
C37_StatusMatchesSocket ==
    event.type \in {"open", "close", "oldOpen", "oldClose"}
        => (status = "connected" <=> socket = "OPEN")

\* the ids of the sockets of the session that are CONNECTING or OPEN
LiveSockets ==
    (IF socket \in {"CONNECTING", "OPEN"} THEN {sockId} ELSE {})
        \cup {olds[i].id : i \in {k \in 1..Len(olds) : olds[k].state \in {"CONNECTING", "OPEN"}}}

\* C38: at most one socket of the session is Connecting or Open, and at
\* most one heartbeat interval is running.
C38_OneSocketOneHeartbeat ==
    /\ Cardinality(LiveSockets) <= 1
    /\ Cardinality(heartbeats) <= 1

\* the detector settles the call of the cycle in flight: with detections,
\* with none, or by throwing
DetectorSettles ==
    \/ \E d \in SpecDetections : \E rnd \in DistinctDraws(Len(d)) : OnDetections(d, rnd)
    \/ DetectThrows

\* SpecCycleLive: SpecCycle when React commits what is due and the detector
\* settles every call
SpecCycleLive == SpecCycle /\ WF_vars(Commit) /\ WF_vars(dirty = {} /\ DetectorSettles)

\* C39: a detection cycle that has set isProcessingRef is followed by a
\* state in which it is cleared, whether the detector delivers detections,
\* delivers none or throws.
C39_FlagEventuallyCleared == isProcessing ~> ~isProcessing

\* the catch block has just cleared the flag of a cycle
C39_Witness ==
    /\ event.type = "detectError"
    /\ ~isProcessing
    /\ lastDetection >= Epoch

\* C40: after an update step at time now every track of the snapshot is
\* stored under its own id; it is visible exactly when the step matched or
\* created it, and then lastSeen = now; an invisible track has
\* now - lastSeen < timeout; and no track has a lastSeen below the one it
\* had in the snapshot before.
C40_SnapshotWellFormed ==
    [][(isProcessing /\ ~isProcessing' /\ event'.type = "update") =>
          \A i \in 1..Len(faces') :
              LET id == faces'[i].key
                  face == faces'[i].val
              IN  /\ face.id = id
                  /\ face.isVisible <=>
                         (id \in DOMAIN matchBy(event'.detections, event'.before)
                             \/ ~MapHas(event'.before, id))
                  /\ face.isVisible => face.lastSeen = event'.at
                  /\ ~face.isVisible => event'.at - face.lastSeen < FACE_TIMEOUT
                  /\ MapHas(faces, id) => MapGet(faces, id).lastSeen <= face.lastSeen]_vars

=============================================================================
